---- MODULE Spec2Model ----
(***************************************************************************)
(* PyRibbonBridge: the client-side RPC engine of ribbonbridge/__init__.py. *)
(* The model follows _RpcProxyImpl: the request counter, the table of open *)
(* conversations, the asyncio futures it hands out, the broadcast handler  *)
(* table, and the coroutines fire/get_versions/disconnect, which suspend   *)
(* in emit before they register their conversation.                        *)
(*                                                                         *)
(* A 32-bit unsigned value is written <<hi, lo>>, two 16-bit halves        *)
(* (value = hi * 65536 + lo), so that the arithmetic keeps its full width. *)
(***************************************************************************)
EXTENDS Integers, Sequences, FiniteSets, TLC

VARIABLES
    _request_id,     \* _RpcProxyImpl._request_id, a 32-bit counter
    _open_convos,    \* _RpcProxyImpl._open_convos: request id -> future
    _bcast_handlers, \* _RpcProxyImpl._bcast_handlers: hashed name -> handler
    calls,           \* the fire/get_versions/disconnect coroutines started so far
    futures,         \* futures[i]: the asyncio.Future of call i: [state, value]
    invoked,         \* the broadcast handlers invoked by the last operation, in order
    log,             \* the log records written by the last operation, in order
    raised,          \* the exception that escaped the last operation, or "none"
    closed,          \* history: whether close() has been called
    Proxy_bcast_handlers, \* Proxy._bcast_handlers: name -> the user's handler
    user_fut,        \* user_fut[i]: the future Proxy._handle_call returned for call i
    handshake        \* handshake[o]: the constructor and the worker thread of object o

vars == <<_request_id, _open_convos, _bcast_handlers, calls, futures,
          invoked, log, raised, closed, Proxy_bcast_handlers, user_fut, handshake>>

----------------------------------------------------------------------------
(* Bounds of the model. *)

\* how many fire/get_versions/disconnect calls are started in one behaviour
MaxCalls == 2

\* how long the names are that the hash is tried on
MaxLen == 5

----------------------------------------------------------------------------
(* 32-bit unsigned arithmetic on <<hi, lo>>. *)

Half == 65536

MaxU32 == <<Half - 1, Half - 1>>      \* 0xffffffff

U32(n) == <<n \div Half, n % Half>>   \* for 0 <= n < 2^31

Lt32(a, b) == a[1] < b[1] \/ (a[1] = b[1] /\ a[2] < b[2])

Le32(a, b) == a = b \/ Lt32(a, b)

\* 0xffffffff & (x + 1)
Inc32(x) ==
    IF x[2] = Half - 1 THEN <<(x[1] + 1) % Half, 0>> ELSE <<x[1], x[2] + 1>>

\* Mutant: (101*h + char) & 0xffff
HashStep_Mask16(h, char) ==
    <<0, (101 * h[2] + char) % Half>>

\* (101*h + char) & 0xffffffff
HashStep(h, char) ==
    LET lo == 101 * h[2] + char
        hi == 101 * h[1] + (lo \div Half)
    IN  <<hi % Half, lo % Half>>

RECURSIVE HashFrom(_, _)
HashFrom(h, s) ==
    IF s = <<>> THEN h ELSE HashFrom(HashStep(h, Head(s)), Tail(s))

\* rb_hash(s), s the sequence of the ASCII codes of the name
rb_hash(s) == HashFrom(<<0, 0>>, s)

----------------------------------------------------------------------------
(* The inputs the operations are called with. *)

\* the ASCII codes of "ping", "alert" and "a"
NamePing == <<112, 105, 110, 103>>

NameAlert == <<97, 108, 101, 114, 116>>

NameA == <<97>>

ProcNames == {NamePing}

\* "sendRobotPing"
NameSendRobotPing == <<115, 101, 110, 100, 82, 111, 98, 111, 116, 80, 105, 110, 103>>

\* "dbwsyk" and "eyeoim", two names with the same hash, 474838548
NameDbwsyk == <<100, 98, 119, 115, 121, 107>>

NameEyeoim == <<101, 121, 101, 111, 105, 109>>

\* the names Proxy subscribes handlers to
ProxyNames == {NameDbwsyk, NameEyeoim, NameAlert}

\* ASCII codes the names are made of: "0", "a" and DEL, the largest one
HashChars == {48, 97, 127}

\* every name of MaxLen characters or less, the empty one included, and the
\* names used elsewhere
HashNames ==
    UNION { [1..k -> HashChars] : k \in 0..MaxLen }
    \cup {NamePing, NameAlert, NameSendRobotPing}

TopicNames == {NameAlert, NameA}

Handlers == {"h1", "h2"}

\* the serialized arguments of a call
ArgPayloads == {""}

\* the payloads of the server's messages
Payloads == {"pong", "oops"}

\* random.randint(100, 32000): both ends of the range
Seeds == {U32(100)}

\* an id no request of the model carries
StrayId == U32(7)

\* the versions Server._handle_connect replies with
VersionsValues == { [rpc |-> <<0, 3, 0>>, interface |-> <<0, 2, 2>>] }

ResultValues == { [id |-> rb_hash(n), payload |-> p] : n \in ProcNames, p \in Payloads }

NoValue == [none |-> TRUE]

----------------------------------------------------------------------------
(* The messages of the server: rpc.ServerMessage, with the fields deliver reads. *)

\* the value of a protobuf field that was not set
DefaultResult == [id |-> <<0, 0>>, payload |-> ""]

DefaultVersions == [rpc |-> <<0, 0, 0>>, interface |-> <<0, 0, 0>>]

\* rpc.Reply
Replies ==
    { [type |-> "RESULT", result |-> r, versions |-> DefaultVersions] : r \in ResultValues }
    \cup
    { [type |-> "VERSIONS", result |-> DefaultResult, versions |-> v] : v \in VersionsValues }
    \cup
    { [type |-> t, result |-> DefaultResult, versions |-> DefaultVersions] : t \in {"STATUS", "OTHER"} }

ReplyMessage(n, r) == [type |-> "REPLY", inReplyTo |-> n, reply |-> r]

BroadcastMessage(b, p) == [type |-> "BROADCAST", broadcast |-> [id |-> b, payload |-> p]]

\* the ids a reply may carry: those of the requests made, and a stray one
ReplyIds == { calls[i].id : i \in DOMAIN calls } \cup {StrayId}

\* the topics a broadcast may carry: the hashed topic names, and a stray one
TopicIds == { rb_hash(n) : n \in TopicNames } \cup {StrayId}

ReplyMessages == { ReplyMessage(n, r) : n \in ReplyIds, r \in Replies }

BroadcastMessages == { BroadcastMessage(b, p) : b \in TopicIds, p \in Payloads }

ServerMessages == ReplyMessages \cup BroadcastMessages

----------------------------------------------------------------------------
(* asyncio.Future, as far as the code uses it. *)

\* a call that has not created its future yet has none
NoFuture == [state |-> "none", value |-> NoValue]

NewFuture == [state |-> "pending", value |-> NoValue]

Done(fut) == fut.state \in {"result", "cancelled"}

\* the dict without key n
Without(convos, n) == [k \in DOMAIN convos \ {n} |-> convos[k]]

\* the dict with convos[n] = f
With(convos, n, f) == [k \in DOMAIN convos \cup {n} |-> IF k = n THEN f ELSE convos[k]]

\* fut.cancel(): a future that is done stays as it is
Cancel(futs, f) ==
    IF Done(futs[f]) THEN futs ELSE [futs EXCEPT ![f].state = "cancelled"]

----------------------------------------------------------------------------
(* _RpcProxyImpl._process_reply and _process_bcast, as functions of the    *)
(* state they read: each returns the state it leaves, what it logged and   *)
(* the exception that escaped it.                                          *)

LogNonexistent ==
    [level |-> "info", text |-> "Received reply to nonexistent conversation"]

\* Mutant: the future is looked up, self._open_convos[reply_id], and not popped.
PopAndSetResult_NoPop(convos, futs, reply_id, value) ==
    IF reply_id \notin DOMAIN convos
    THEN [convos |-> convos, futures |-> futs,
          log |-> <<LogNonexistent>>, raised |-> "none"]
    ELSE LET f == convos[reply_id] IN
         IF Done(futs[f])
         THEN [convos |-> convos, futures |-> futs,
               log |-> <<LogNonexistent>>, raised |-> "none"]
         ELSE [convos |-> convos,
               futures |-> [futs EXCEPT ![f] = [state |-> "result", value |-> value]],
               log |-> <<>>, raised |-> "none"]

\* Mutant: replies are matched by arrival, each resolving the oldest open conversation.
PopAndSetResult_Oldest(convos, futs, reply_id, value) ==
    IF DOMAIN convos = {}
    THEN [convos |-> convos, futures |-> futs,
          log |-> <<LogNonexistent>>, raised |-> "none"]
    ELSE LET oldest == CHOOSE n \in DOMAIN convos : \A m \in DOMAIN convos : Le32(n, m)
             f == convos[oldest]
         IN  IF Done(futs[f])
             THEN [convos |-> Without(convos, oldest), futures |-> futs,
                   log |-> <<LogNonexistent>>, raised |-> "none"]
             ELSE [convos |-> Without(convos, oldest),
                   futures |-> [futs EXCEPT ![f] = [state |-> "result", value |-> value]],
                   log |-> <<>>, raised |-> "none"]

\* Mutant: "except InvalidStateError:", so that the KeyError of pop escapes.
PopAndSetResult_KeyErrorEscapes(convos, futs, reply_id, value) ==
    IF reply_id \notin DOMAIN convos
    THEN [convos |-> convos, futures |-> futs, log |-> <<>>, raised |-> "KeyError"]
    ELSE LET f == convos[reply_id] IN
         IF Done(futs[f])
         THEN [convos |-> Without(convos, reply_id), futures |-> futs,
               log |-> <<LogNonexistent>>, raised |-> "none"]
         ELSE [convos |-> Without(convos, reply_id),
               futures |-> [futs EXCEPT ![f] = [state |-> "result", value |-> value]],
               log |-> <<>>, raised |-> "none"]

\* Mutant: "except KeyError:", so that the InvalidStateError of set_result escapes.
PopAndSetResult_KeyErrorOnly(convos, futs, reply_id, value) ==
    IF reply_id \notin DOMAIN convos
    THEN [convos |-> convos, futures |-> futs,
          log |-> <<LogNonexistent>>, raised |-> "none"]
    ELSE LET f == convos[reply_id] IN
         IF Done(futs[f])
         THEN [convos |-> Without(convos, reply_id), futures |-> futs,
               log |-> <<>>, raised |-> "InvalidStateError"]
         ELSE [convos |-> Without(convos, reply_id),
               futures |-> [futs EXCEPT ![f] = [state |-> "result", value |-> value]],
               log |-> <<>>, raised |-> "none"]

\* fut = self._open_convos.pop(reply_id); fut.set_result(value), inside try/except
PopAndSetResult(convos, futs, reply_id, value) ==
    IF reply_id \notin DOMAIN convos
    THEN \* pop raises KeyError, which the bare except catches
         [convos |-> convos, futures |-> futs,
          log |-> <<LogNonexistent>>, raised |-> "none"]
    ELSE LET f == convos[reply_id] IN
         IF Done(futs[f])
         THEN \* set_result raises InvalidStateError, which the bare except catches
              [convos |-> Without(convos, reply_id), futures |-> futs,
               log |-> <<LogNonexistent>>, raised |-> "none"]
         ELSE [convos |-> Without(convos, reply_id),
               futures |-> [futs EXCEPT ![f] = [state |-> "result", value |-> value]],
               log |-> <<>>, raised |-> "none"]

\* Mutant: a STATUS reply is taken for the answer to its conversation.
_process_reply_StatusResolves(convos, futs, reply_id, reply) ==
    CASE reply.type = "RESULT" -> PopAndSetResult(convos, futs, reply_id, reply.result)
      [] reply.type = "VERSIONS" -> PopAndSetResult(convos, futs, reply_id, reply.versions)
      [] reply.type = "STATUS" -> PopAndSetResult(convos, futs, reply_id, reply.result)
      [] OTHER ->
            [convos |-> convos, futures |-> futs,
             log |-> <<[level |-> "warning", text |-> "Unknown reply type"],
                       [level |-> "warning", text |-> "reply"]>>,
             raised |-> "none"]

_process_reply(convos, futs, reply_id, reply) ==
    CASE reply.type = "RESULT" -> PopAndSetResult(convos, futs, reply_id, reply.result)
      [] reply.type = "VERSIONS" -> PopAndSetResult(convos, futs, reply_id, reply.versions)
      [] reply.type = "STATUS" ->
            [convos |-> convos, futures |-> futs,
             log |-> <<[level |-> "info", text |-> "Received STATUS"]>>,
             raised |-> "none"]
      [] OTHER ->
            [convos |-> convos, futures |-> futs,
             log |-> <<[level |-> "warning", text |-> "Unknown reply type"],
                       [level |-> "warning", text |-> "reply"]>>,
             raised |-> "none"]

\* Mutant: the broadcast goes to every handler of the table.
_process_bcast_All(handlers, broadcast, handlerRaises) ==
    IF broadcast.id \notin DOMAIN handlers
    THEN [invoked |-> <<>>,
          log |-> <<[level |-> "debug", text |-> "Received unhandled broadcast"]>>,
          raised |-> "none"]
    ELSE LET ids == DOMAIN handlers
             order == CHOOSE p \in [1..Cardinality(ids) -> ids] :
                         \A i, j \in 1..Cardinality(ids) : i # j => p[i] # p[j]
         IN  [invoked |-> [i \in 1..Cardinality(ids) |->
                             [handler |-> handlers[order[i]],
                              args |-> <<broadcast.id, broadcast.payload>>]],
              log |-> IF handlerRaises
                      THEN <<[level |-> "error", text |-> "Could not handle bcast event"]>>
                      ELSE <<>>,
              raised |-> "none"]

\* Mutant: no "except Exception" clause, so that what the handler raises escapes.
_process_bcast_HandlerErrorEscapes(handlers, broadcast, handlerRaises) ==
    IF broadcast.id \notin DOMAIN handlers
    THEN [invoked |-> <<>>,
          log |-> <<[level |-> "debug", text |-> "Received unhandled broadcast"]>>,
          raised |-> "none"]
    ELSE [invoked |-> <<[handler |-> handlers[broadcast.id],
                         args |-> <<broadcast.id, broadcast.payload>>]>>,
          log |-> <<>>,
          raised |-> IF handlerRaises THEN "Exception" ELSE "none"]

\* Mutant: no "except KeyError" clause and "except Exception" narrowed, so that
\* the KeyError of the lookup escapes.
_process_bcast_KeyErrorEscapes(handlers, broadcast, handlerRaises) ==
    IF broadcast.id \notin DOMAIN handlers
    THEN [invoked |-> <<>>, log |-> <<>>, raised |-> "KeyError"]
    ELSE [invoked |-> <<[handler |-> handlers[broadcast.id],
                         args |-> <<broadcast.id, broadcast.payload>>]>>,
          log |-> IF handlerRaises
                  THEN <<[level |-> "error", text |-> "Could not handle bcast event"]>>
                  ELSE <<>>,
          raised |-> "none"]

\* handlerRaises: whether the handler, once invoked, raises an Exception
_process_bcast(handlers, broadcast, handlerRaises) ==
    IF broadcast.id \notin DOMAIN handlers
    THEN \* KeyError
         [invoked |-> <<>>,
          log |-> <<[level |-> "debug", text |-> "Received unhandled broadcast"]>>,
          raised |-> "none"]
    ELSE [invoked |-> <<[handler |-> handlers[broadcast.id],
                         args |-> <<broadcast.id, broadcast.payload>>]>>,
          log |-> IF handlerRaises
                  THEN <<[level |-> "error", text |-> "Could not handle bcast event"]>>
                  ELSE <<>>,
          raised |-> "none"]

\* _RpcProxyImpl.deliver on the state st = [convos, futures, handlers]
deliver(st, msg, handlerRaises) ==
    IF msg.type = "REPLY"
    THEN LET r == _process_reply(st.convos, st.futures, msg.inReplyTo, msg.reply) IN
         [convos |-> r.convos, futures |-> r.futures, handlers |-> st.handlers,
          invoked |-> <<>>,
          log |-> <<[level |-> "info", text |-> "Processing REPLY"]>> \o r.log,
          raised |-> r.raised]
    ELSE LET b == _process_bcast(st.handlers, msg.broadcast, handlerRaises) IN
         [convos |-> st.convos, futures |-> st.futures, handlers |-> st.handlers,
          invoked |-> b.invoked,
          log |-> <<[level |-> "info", text |-> "Processing BROADCAST"]>> \o b.log,
          raised |-> b.raised]

----------------------------------------------------------------------------
(* The other operations of _RpcProxyImpl, as functions of the state they read. *)

EmptyDict == [k \in {} |-> 0]

\* self._request_id = 0xffffffff & (self._request_id+1); return self._request_id
_new_id(request_id) == Inc32(request_id)

\* self._open_convos[cm.id] = fut
Register(convos, id, f) == With(convos, id, f)

\* close(), where first is the key the iteration over the dict yields first:
\* the loop deletes it, and the iterator then raises RuntimeError
\* ("dictionary changed size during iteration")
close(convos, futs, first) ==
    [convos |-> Without(convos, first),
     futures |-> Cancel(futs, convos[first]),
     raised |-> "RuntimeError"]

\* self._bcast_handlers[rb_hash(procedure_name)] = coroutine
add_broadcast_handler(handlers, procedure_name, coroutine) ==
    With(handlers, rb_hash(procedure_name), coroutine)

\* del self._bcast_handlers[rb_hash(procedure_name)]
remove_broadcast_handler(handlers, procedure_name) ==
    IF rb_hash(procedure_name) \in DOMAIN handlers
    THEN [handlers |-> Without(handlers, rb_hash(procedure_name)), raised |-> "none"]
    ELSE [handlers |-> handlers, raised |-> "KeyError"]

----------------------------------------------------------------------------
(* test.py: IoCore and SfpRpcProxy start a worker thread in their           *)
(* constructor and wait on a threading.Condition until the worker has made  *)
(* its event loop.                                                          *)

\* the objects constructed, each with a worker thread of its own
Objects == {"IoCore", "SfpRpcProxy"}

\* Mutant: the worker signals that it is ready before it creates the loop.
work_LoopLast ==
    <<"acquire", "set", "notify_all", "release", "new_event_loop", "run_forever">>

\* the statements of IoCore.work and of SfpRpcProxy._io_thread_func, in order
work ==
    <<"new_event_loop", "acquire", "set", "notify_all", "release", "run_forever">>

\* The object when its constructor is about to start the thread: the flag is
\* set and the condition exists; IoCore has set loop to None, SfpRpcProxy has
\* no _loop attribute yet.
\* ctor: where the constructor is; thread: the statement of work the worker is
\* at, 0 before it is started; owner: who holds the condition's lock;
\* notified: whether notify_all has woken the waiting constructor;
\* wait_result: how the last wait() ended
NewObject(o) ==
    [ctor |-> "start", thread |-> 0, _initializing |-> TRUE,
     loop |-> IF o = "IoCore" THEN "None" ELSE "unset",
     owner |-> "none", notified |-> FALSE, wait_result |-> "none"]

----------------------------------------------------------------------------
(* The state machine. *)

Init ==
    /\ _request_id \in Seeds
    /\ _open_convos = EmptyDict
    /\ _bcast_handlers = EmptyDict
    /\ calls = <<>>
    /\ futures = <<>>
    /\ invoked = <<>>
    /\ log = <<>>
    /\ raised = "none"
    /\ closed = FALSE
    /\ Proxy_bcast_handlers = EmptyDict
    /\ user_fut = EmptyDict
    /\ handshake = [o \in Objects |-> NewObject(o)]

\* fire, get_versions and disconnect up to their "yield from self.emit(...)":
\* the request gets a new id and is handed to emit, where the coroutine suspends.
\* answered: history, whether a reply to the request was delivered during the suspension
StartCall(op, request, logged) ==
    /\ Len(calls) < MaxCalls
    /\ _request_id' = _new_id(_request_id)
    /\ calls' = Append(calls, [id |-> _request_id', op |-> op, request |-> request,
                               pc |-> "emit", answered |-> FALSE])
    /\ futures' = Append(futures, NoFuture)
    /\ log' = logged
    /\ invoked' = <<>>
    /\ raised' = "none"
    /\ UNCHANGED <<_open_convos, _bcast_handlers>>
    /\ UNCHANGED <<closed, Proxy_bcast_handlers, user_fut, handshake>>

fire(procedure_name, payload) ==
    StartCall("fire",
              [type |-> "FIRE", fire |-> [id |-> rb_hash(procedure_name), payload |-> payload]],
              <<[level |-> "info", text |-> "Scheduled 'FIRE' op"]>>)

get_versions ==
    StartCall("get_versions", [type |-> "CONNECT"], <<>>)

disconnect ==
    StartCall("disconnect", [type |-> "DISCONNECT"], <<>>)

\* emit returns to the suspended coroutine i, which creates its future,
\* registers it under its id and returns it
EmitReturns(i) ==
    /\ calls[i].pc = "emit"
    /\ calls' = [calls EXCEPT ![i].pc = "returned"]
    /\ futures' = [futures EXCEPT ![i] = NewFuture]
    /\ _open_convos' = Register(_open_convos, calls[i].id, i)
    /\ log' = IF calls[i].op = "fire" THEN <<>>
              ELSE <<[level |-> "info", text |-> "Scheduled call"]>>
    /\ invoked' = <<>>
    /\ raised' = "none"
    /\ UNCHANGED <<_request_id, _bcast_handlers>>
    /\ UNCHANGED <<closed, Proxy_bcast_handlers, user_fut, handshake>>

\* Mutant: the future is created and registered before emit is awaited, so that
\* it is in the table when emit raises.
EmitRaises_AfterRegister(i) ==
    /\ calls[i].pc = "emit"
    /\ calls' = [calls EXCEPT ![i].pc = "raised"]
    /\ futures' = [futures EXCEPT ![i] = NewFuture]
    /\ _open_convos' = Register(_open_convos, calls[i].id, i)
    /\ raised' = "NotImplementedError"
    /\ log' = <<>>
    /\ invoked' = <<>>
    /\ UNCHANGED <<_request_id, _bcast_handlers>>
    /\ UNCHANGED <<closed, Proxy_bcast_handlers, user_fut, handshake>>

\* emit raises (NotImplementedError when it was not overridden): the exception
\* leaves the coroutine i before it creates a future
EmitRaises(i) ==
    /\ calls[i].pc = "emit"
    /\ calls' = [calls EXCEPT ![i].pc = "raised"]
    /\ raised' = "NotImplementedError"
    /\ log' = <<>>
    /\ invoked' = <<>>
    /\ UNCHANGED <<_request_id, _open_convos, _bcast_handlers, futures>>
    /\ UNCHANGED <<closed, Proxy_bcast_handlers, user_fut, handshake>>

\* RESULT and VERSIONS replies are the ones that answer a request
Answers(msg) == msg.type = "REPLY" /\ msg.reply.type \in {"RESULT", "VERSIONS"}

\* history: the suspended coroutines whose request msg answers take note of it
NoteAnswer(c, msg) ==
    IF Answers(msg) /\ c.pc = "emit" /\ c.id = msg.inReplyTo
    THEN [c EXCEPT !.answered = TRUE]
    ELSE c

\* the transport hands msg to deliver
Deliver(msg, handlerRaises) ==
    LET st == [convos |-> _open_convos, futures |-> futures, handlers |-> _bcast_handlers]
        r == deliver(st, msg, handlerRaises)
    IN  /\ _open_convos' = r.convos
        /\ futures' = r.futures
        /\ _bcast_handlers' = r.handlers
        /\ invoked' = r.invoked
        /\ log' = r.log
        /\ raised' = r.raised
        /\ calls' = [i \in DOMAIN calls |-> NoteAnswer(calls[i], msg)]
        /\ UNCHANGED <<_request_id>>
        /\ UNCHANGED <<closed, Proxy_bcast_handlers, user_fut, handshake>>

\* the caller cancels a future a call returned to it
CallerCancel(f) ==
    /\ calls[f].pc = "returned"
    /\ futures' = Cancel(futures, f)
    /\ log' = <<>>
    /\ invoked' = <<>>
    /\ raised' = "none"
    /\ UNCHANGED <<_request_id, _open_convos, _bcast_handlers, calls>>
    /\ UNCHANGED <<closed, Proxy_bcast_handlers, user_fut, handshake>>

\* close(): with an empty dict the loop body never runs; otherwise the key that
\* comes first depends on the dict's iteration order, any key of it here
Close ==
    /\ \/ /\ DOMAIN _open_convos = {}
          /\ raised' = "none"
          /\ UNCHANGED <<_open_convos, futures>>
       \/ \E first \in DOMAIN _open_convos :
            LET r == close(_open_convos, futures, first) IN
            /\ _open_convos' = r.convos
            /\ futures' = r.futures
            /\ raised' = r.raised
    /\ log' = <<>>
    /\ invoked' = <<>>
    /\ UNCHANGED <<_request_id, _bcast_handlers, calls>>
    /\ closed' = TRUE
    /\ UNCHANGED <<Proxy_bcast_handlers, user_fut, handshake>>

AddBroadcastHandler(name, h) ==
    /\ _bcast_handlers' = add_broadcast_handler(_bcast_handlers, name, h)
    /\ log' = <<>>
    /\ invoked' = <<>>
    /\ raised' = "none"
    /\ UNCHANGED <<_request_id, _open_convos, calls, futures>>
    /\ UNCHANGED <<closed, Proxy_bcast_handlers, user_fut, handshake>>

RemoveBroadcastHandler(name) ==
    LET r == remove_broadcast_handler(_bcast_handlers, name) IN
    /\ _bcast_handlers' = r.handlers
    /\ raised' = r.raised
    /\ log' = <<>>
    /\ invoked' = <<>>
    /\ UNCHANGED <<_request_id, _open_convos, calls, futures>>
    /\ UNCHANGED <<closed, Proxy_bcast_handlers, user_fut, handshake>>

\* whether id n is one of those after from, up to and including to, counting
\* upwards from from and through the wrap-around when to is not above from
Between(from, n, to) ==
    IF Lt32(from, to)
    THEN Lt32(from, n) /\ Le32(n, to)
    ELSE Lt32(from, n) \/ Le32(n, to)

\* where a run of answered calls stops: at the seed, or right before the wrap-around
RunTargets == Seeds \cup {MaxU32}

\* A run of fire calls, each answered by its RESULT reply before the next one
\* is made, that takes the counter round to the value target: every id of the
\* run is free, so each call registers its future and its reply removes it
\* again, and of the whole run only the counter remains. Up to 2^32 calls in
\* one step.
AnsweredCalls(target) ==
    /\ \A n \in DOMAIN _open_convos : ~Between(_request_id, n, target)
    /\ _request_id' = target
    /\ log' = <<>>
    /\ invoked' = <<>>
    /\ raised' = "none"
    /\ UNCHANGED <<_open_convos, _bcast_handlers, calls, futures>>
    /\ UNCHANGED <<closed, Proxy_bcast_handlers, user_fut, handshake>>

\* the replies that answer a request
AnswerMessages == { m \in ReplyMessages : Answers(m) }

\* Calls and handshakes, the replies that answer them, cancellation and close.
Next ==
    \/ \E n \in ProcNames, p \in ArgPayloads : fire(n, p)
    \/ get_versions
    \/ \E i \in DOMAIN calls : EmitReturns(i)
    \/ \E msg \in AnswerMessages : Deliver(msg, FALSE)
    \/ \E f \in DOMAIN futures : CallerCancel(f)
    \/ Close

Spec == Init /\ [][Next]_vars

\* The same with disconnect, a failing emit, every reply of the server, and
\* the runs of answered calls that take the counter round.
NextWrap ==
    \/ Next
    \/ disconnect
    \/ \E i \in DOMAIN calls : EmitRaises(i)
    \/ \E msg \in ReplyMessages \ AnswerMessages : Deliver(msg, FALSE)
    \/ \E t \in RunTargets : AnsweredCalls(t)

SpecWrap == Init /\ [][NextWrap]_vars

\* Calls whose emit returns or raises, every reply of the server, and cancellation.
NextReplies ==
    \/ \E n \in ProcNames, p \in ArgPayloads : fire(n, p)
    \/ get_versions
    \/ \E i \in DOMAIN calls : EmitReturns(i)
    \/ \E i \in DOMAIN calls : EmitRaises(i)
    \/ \E msg \in ReplyMessages : Deliver(msg, FALSE)
    \/ \E f \in DOMAIN futures : CallerCancel(f)

SpecReplies == Init /\ [][NextReplies]_vars

(* Calls made from several threads, as when the callers run on other       *)
(* threads than the I/O loop that runs deliver: a thread can be preempted   *)
(* between the bytecodes of _new_id, which reads the counter, stores the    *)
(* incremented value and reads the counter again for its return value.      *)

\* a thread enters fire or get_versions and, in _new_id, evaluates
\* 0xffffffff & (self._request_id+1)
ThreadCall(op, request) ==
    /\ Len(calls) < MaxCalls
    /\ calls' = Append(calls, [id |-> _new_id(_request_id), op |-> op, request |-> request,
                               pc |-> "new_id", answered |-> FALSE])
    /\ futures' = Append(futures, NoFuture)
    /\ log' = <<>>
    /\ invoked' = <<>>
    /\ raised' = "none"
    /\ UNCHANGED <<_request_id, _open_convos, _bcast_handlers, closed, Proxy_bcast_handlers,
                   user_fut, handshake>>

\* self._request_id = <the value evaluated>
NewIdStore(i) ==
    /\ calls[i].pc = "new_id"
    /\ _request_id' = calls[i].id
    /\ calls' = [calls EXCEPT ![i].pc = "new_id_return"]
    /\ log' = <<>>
    /\ invoked' = <<>>
    /\ raised' = "none"
    /\ UNCHANGED <<_open_convos, _bcast_handlers, futures, closed, Proxy_bcast_handlers,
                   user_fut, handshake>>

\* return self._request_id; the caller takes it for cm.id and goes on to emit
NewIdReturn(i) ==
    /\ calls[i].pc = "new_id_return"
    /\ calls' = [calls EXCEPT ![i].id = _request_id, ![i].pc = "emit"]
    /\ log' = IF calls[i].op = "fire"
              THEN <<[level |-> "info", text |-> "Scheduled 'FIRE' op"]>>
              ELSE <<>>
    /\ invoked' = <<>>
    /\ raised' = "none"
    /\ UNCHANGED <<_request_id, _open_convos, _bcast_handlers, futures, closed,
                   Proxy_bcast_handlers, user_fut, handshake>>

NextThreads ==
    \/ \E n \in ProcNames, p \in ArgPayloads :
          ThreadCall("fire", [type |-> "FIRE",
                              fire |-> [id |-> rb_hash(n), payload |-> p]])
    \/ ThreadCall("get_versions", [type |-> "CONNECT"])
    \/ \E i \in DOMAIN calls : NewIdStore(i)
    \/ \E i \in DOMAIN calls : NewIdReturn(i)
    \/ \E i \in DOMAIN calls : EmitReturns(i)
    \/ \E msg \in AnswerMessages : Deliver(msg, FALSE)

SpecThreads == Init /\ [][NextThreads]_vars

(* Proxy._handle_call: the conversation future of fire is chained to the    *)
(* future handed to the user.                                               *)

\* Proxy._handle_reply: the Result's payload is parsed into the procedure's
\* result object, which fails when the payload is malformed and when the value
\* is not a Result, as it has no payload then
_handle_reply(result, malformed) ==
    IF result \in ResultValues /\ ~malformed
    THEN [ok |-> TRUE, value |-> [result_obj |-> result.payload]]
    ELSE [ok |-> FALSE, value |-> NoValue]

\* handler of _chain_futures, the done-callback of fut1:
\*   if fut1.cancelled(): fut2.cancel()
\*   else: fut2.set_result(conv(fut1.result()))
\* raised: the exception that ends the callback, which the event loop logs
handler(fut2, malformed, fut1) ==
    IF fut1.state = "cancelled"
    THEN [fut2 |-> IF Done(fut2) THEN fut2 ELSE [fut2 EXCEPT !.state = "cancelled"],
          raised |-> "none"]
    ELSE LET c == _handle_reply(fut1.value, malformed) IN
         IF ~c.ok
         THEN [fut2 |-> fut2, raised |-> "Exception"]
         ELSE IF Done(fut2)
              THEN [fut2 |-> fut2, raised |-> "InvalidStateError"]
              ELSE [fut2 |-> [fut2 EXCEPT !.state = "result", !.value = c.value],
                    raised |-> "none"]

\* emit returns to the fire that _handle_call awaits: fire registers its future
\* and returns it, and _handle_call creates user_fut, chains it and returns it
_handle_call_returns(i) ==
    /\ calls[i].pc = "emit"
    /\ calls[i].op = "fire"
    /\ calls' = [calls EXCEPT ![i].pc = "returned"]
    /\ futures' = [futures EXCEPT ![i] = NewFuture]
    /\ _open_convos' = Register(_open_convos, calls[i].id, i)
    /\ user_fut' = With(user_fut, i, [state |-> "pending", value |-> NoValue,
                                       callback |-> "registered"])
    /\ log' = <<[level |-> "info", text |-> "Scheduled call to"]>>
    /\ invoked' = <<>>
    /\ raised' = "none"
    /\ UNCHANGED <<_request_id, _bcast_handlers, closed, Proxy_bcast_handlers, handshake>>

\* the user cancels the future _handle_call returned
UserCancel(i) ==
    /\ i \in DOMAIN user_fut
    /\ user_fut[i].state = "pending"
    /\ user_fut' = [user_fut EXCEPT ![i].state = "cancelled"]
    /\ log' = <<>>
    /\ invoked' = <<>>
    /\ raised' = "none"
    /\ UNCHANGED <<_request_id, _open_convos, _bcast_handlers, calls, futures, closed,
                   Proxy_bcast_handlers, handshake>>

LogExceptionInCallback == [level |-> "error", text |-> "Exception in callback"]

\* the event loop runs the done-callback of a conversation future that is done;
\* an exception of the callback goes to the loop's exception handler
RunCallback(i, malformed) ==
    /\ i \in DOMAIN user_fut
    /\ user_fut[i].callback = "registered"
    /\ Done(futures[i])
    /\ LET r == handler([state |-> user_fut[i].state, value |-> user_fut[i].value],
                        malformed, futures[i])
       IN  /\ user_fut' = [user_fut EXCEPT ![i] = [state |-> r.fut2.state,
                                                    value |-> r.fut2.value,
                                                    callback |-> "run"]]
           /\ log' = IF r.raised = "none" THEN <<>> ELSE <<LogExceptionInCallback>>
    /\ invoked' = <<>>
    /\ raised' = "none"
    /\ UNCHANGED <<_request_id, _open_convos, _bcast_handlers, calls, futures, closed,
                   Proxy_bcast_handlers, handshake>>

\* Calls through Proxy, their replies, rb_close and the user's cancellation.
NextCall ==
    \/ \E n \in ProcNames, p \in ArgPayloads : fire(n, p)
    \/ \E i \in DOMAIN calls : _handle_call_returns(i)
    \/ \E msg \in AnswerMessages : Deliver(msg, FALSE)
    \/ \E i \in DOMAIN calls, malformed \in BOOLEAN : RunCallback(i, malformed)
    \/ \E i \in DOMAIN calls : UserCancel(i)
    \/ Close

SpecCall == Init /\ [][NextCall]_vars

(* The handshake of test.py. *)

\* what a step of the handshake leaves alone
HandshakeOnly ==
    UNCHANGED <<_request_id, _open_convos, _bcast_handlers, calls, futures,
                invoked, log, raised, closed, Proxy_bcast_handlers, user_fut>>

\* self._thread.start()
ThreadStart(o) ==
    /\ handshake[o].ctor = "start"
    /\ handshake' = [handshake EXCEPT ![o].ctor = "acquire", ![o].thread = 1]
    /\ HandshakeOnly

\* self._initializing_sig.acquire() in the constructor
CtorAcquire(o) ==
    /\ handshake[o].ctor = "acquire"
    /\ handshake[o].owner = "none"
    /\ handshake' = [handshake EXCEPT ![o].ctor = "test", ![o].owner = "ctor"]
    /\ HandshakeOnly

\* while self._initializing:
CtorTest(o) ==
    /\ handshake[o].ctor = "test"
    /\ handshake' = [handshake EXCEPT ![o].ctor =
                        IF handshake[o]._initializing THEN "wait" ELSE "release"]
    /\ HandshakeOnly

\* self._initializing_sig.wait(timeout=1): the lock is released and the
\* constructor blocks
CtorWait(o) ==
    /\ handshake[o].ctor = "wait"
    /\ handshake' = [handshake EXCEPT ![o].ctor = "waiting", ![o].owner = "none",
                                      ![o].notified = FALSE]
    /\ HandshakeOnly

\* wait() is woken, by notify_all or else by its timeout
CtorWake(o) ==
    /\ handshake[o].ctor = "waiting"
    /\ handshake' = [handshake EXCEPT ![o].ctor = "reacquire",
                                      ![o].wait_result =
                                         IF handshake[o].notified THEN "notified" ELSE "timeout"]
    /\ HandshakeOnly

\* wait() takes the lock again before it returns
CtorReacquire(o) ==
    /\ handshake[o].ctor = "reacquire"
    /\ handshake[o].owner = "none"
    /\ handshake' = [handshake EXCEPT ![o].ctor = "test", ![o].owner = "ctor"]
    /\ HandshakeOnly

\* self._initializing_sig.release(), and the constructor returns
CtorRelease(o) ==
    /\ handshake[o].ctor = "release"
    /\ handshake' = [handshake EXCEPT ![o].ctor = "returned", ![o].owner = "none"]
    /\ HandshakeOnly

\* the worker is at the statement stmt of work
WorkerAt(o, stmt) ==
    /\ handshake[o].thread \in DOMAIN work
    /\ work[handshake[o].thread] = stmt

\* self.loop = asyncio.new_event_loop()
WorkNewEventLoop(o) ==
    /\ WorkerAt(o, "new_event_loop")
    /\ handshake' = [handshake EXCEPT ![o].loop = "loop", ![o].thread = @ + 1]
    /\ HandshakeOnly

\* self._initializing_sig.acquire() in the worker
WorkAcquire(o) ==
    /\ WorkerAt(o, "acquire")
    /\ handshake[o].owner = "none"
    /\ handshake' = [handshake EXCEPT ![o].owner = "work", ![o].thread = @ + 1]
    /\ HandshakeOnly

\* self._initializing = False
WorkSet(o) ==
    /\ WorkerAt(o, "set")
    /\ handshake' = [handshake EXCEPT ![o]._initializing = FALSE, ![o].thread = @ + 1]
    /\ HandshakeOnly

\* self._initializing_sig.notify_all()
WorkNotifyAll(o) ==
    /\ WorkerAt(o, "notify_all")
    /\ handshake' = [handshake EXCEPT ![o].notified = (handshake[o].ctor = "waiting"),
                                      ![o].thread = @ + 1]
    /\ HandshakeOnly

\* self._initializing_sig.release() in the worker
WorkRelease(o) ==
    /\ WorkerAt(o, "release")
    /\ handshake' = [handshake EXCEPT ![o].owner = "none", ![o].thread = @ + 1]
    /\ HandshakeOnly

\* the constructor's thread, and the worker thread up to run_forever()
Ctor(o) ==
    \/ ThreadStart(o)
    \/ CtorAcquire(o)
    \/ CtorTest(o)
    \/ CtorWait(o)
    \/ CtorWake(o)
    \/ CtorReacquire(o)
    \/ CtorRelease(o)

Worker(o) ==
    \/ WorkNewEventLoop(o)
    \/ WorkAcquire(o)
    \/ WorkSet(o)
    \/ WorkNotifyAll(o)
    \/ WorkRelease(o)

NextHandshake ==
    \E o \in Objects : Ctor(o) \/ Worker(o)

\* Every thread that can run does so in the end, and the worker, blocked in
\* acquire(), gets the lock that the constructor's wait(timeout=1) frees for a
\* second in each round of its loop.
SpecHandshake ==
    /\ Init
    /\ [][NextHandshake]_vars
    /\ \A o \in Objects : WF_vars(Ctor(o)) /\ SF_vars(Worker(o))

(* Proxy, which keeps the user's handlers by name and gives the core a     *)
(* wrapper of its own for each.                                            *)

\* asyncio.coroutine(functools.partial(self._handle_bcast, procedure_name))
Wrapper(procedure_name) ==
    [partial |-> "_handle_bcast", procedure_name |-> procedure_name]

\* Proxy._handle_bcast: the user's handler of the name is looked up and invoked
\* with the parsed payload; a KeyError and any other Exception are logged
_handle_bcast(handlers, procedure_name, payload, handlerRaises) ==
    IF procedure_name \notin DOMAIN handlers
    THEN [invoked |-> <<>>,
          log |-> <<[level |-> "info", text |-> "Warning: Could not handle broadcast"]>>]
    ELSE [invoked |-> <<[handler |-> handlers[procedure_name], args |-> <<payload>>]>>,
          log |-> IF handlerRaises
                  THEN <<[level |-> "error", text |-> "Failed to handle bcast"]>>
                  ELSE <<>>]

rb_add_broadcast_handler(procedure_name, coroutine) ==
    /\ Proxy_bcast_handlers' = With(Proxy_bcast_handlers, procedure_name, coroutine)
    /\ _bcast_handlers' =
          add_broadcast_handler(_bcast_handlers, procedure_name, Wrapper(procedure_name))
    /\ log' = <<>>
    /\ invoked' = <<>>
    /\ raised' = "none"
    /\ UNCHANGED <<_request_id, _open_convos, calls, futures, closed, user_fut, handshake>>

\* del self._bcast_handlers[procedure_name] raises KeyError before the core is
\* reached; otherwise the core's own del follows
rb_remove_broadcast_handler(procedure_name) ==
    /\ IF procedure_name \notin DOMAIN Proxy_bcast_handlers
       THEN /\ raised' = "KeyError"
            /\ UNCHANGED <<Proxy_bcast_handlers, _bcast_handlers>>
       ELSE LET r == remove_broadcast_handler(_bcast_handlers, procedure_name) IN
            /\ Proxy_bcast_handlers' = Without(Proxy_bcast_handlers, procedure_name)
            /\ _bcast_handlers' = r.handlers
            /\ raised' = r.raised
    /\ log' = <<>>
    /\ invoked' = <<>>
    /\ UNCHANGED <<_request_id, _open_convos, calls, futures, closed, user_fut, handshake>>

ProxyBroadcastMessages ==
    { BroadcastMessage(rb_hash(n), p) : n \in ProxyNames, p \in Payloads }

\* Proxy.rb_deliver: the core delivers the message, and the wrapper the core
\* invokes for a broadcast runs _handle_bcast
rb_deliver(msg, handlerRaises) ==
    LET st == [convos |-> _open_convos, futures |-> futures, handlers |-> _bcast_handlers]
        r == deliver(st, msg, FALSE)
        h == IF r.invoked = <<>>
             THEN [invoked |-> <<>>, log |-> <<>>]
             ELSE _handle_bcast(Proxy_bcast_handlers, r.invoked[1].handler.procedure_name,
                                r.invoked[1].args[2], handlerRaises)
    IN  /\ _open_convos' = r.convos
        /\ futures' = r.futures
        /\ _bcast_handlers' = r.handlers
        /\ invoked' = r.invoked \o h.invoked
        /\ log' = <<[level |-> "info", text |-> "bytes delivered from transport."]>>
                     \o r.log \o h.log
        /\ raised' = r.raised
        /\ calls' = [i \in DOMAIN calls |-> NoteAnswer(calls[i], msg)]
        /\ UNCHANGED <<_request_id, closed, Proxy_bcast_handlers, user_fut, handshake>>

NextProxy ==
    \/ \E n \in ProxyNames, h \in Handlers : rb_add_broadcast_handler(n, h)
    \/ \E n \in ProxyNames : rb_remove_broadcast_handler(n)
    \/ \E msg \in ProxyBroadcastMessages, handlerRaises \in BOOLEAN : rb_deliver(msg, handlerRaises)

SpecProxy == Init /\ [][NextProxy]_vars

\* One name hashed per behaviour, by the first fire call or by the first
\* subscription of a client.
HashFire(procedure_name) ==
    /\ calls = <<>>
    /\ _bcast_handlers = EmptyDict
    /\ fire(procedure_name, "")

HashSubscribe(procedure_name) ==
    /\ calls = <<>>
    /\ _bcast_handlers = EmptyDict
    /\ AddBroadcastHandler(procedure_name, "h1")

NextHash ==
    \/ \E n \in HashNames : HashFire(n)
    \/ \E n \in HashNames : HashSubscribe(n)

SpecHash == Init /\ [][NextHash]_vars

\* Broadcasts: the handler table, the broadcasts among the replies, and fire calls.
NextBcast ==
    \/ \E n \in ProcNames, p \in ArgPayloads : fire(n, p)
    \/ \E i \in DOMAIN calls : EmitReturns(i)
    \/ \E msg \in AnswerMessages : Deliver(msg, FALSE)
    \/ \E msg \in BroadcastMessages, handlerRaises \in BOOLEAN : Deliver(msg, handlerRaises)
    \/ \E n \in TopicNames, h \in Handlers : AddBroadcastHandler(n, h)
    \/ \E n \in TopicNames : RemoveBroadcastHandler(n)

SpecBcast == Init /\ [][NextBcast]_vars

----------------------------------------------------------------------------
(* The claims. *)

\* the open conversations whose future is still pending
PendingIds == { n \in DOMAIN _open_convos : futures[_open_convos[n]].state = "pending" }

LogProcessingReply == [level |-> "info", text |-> "Processing REPLY"]

LogProcessingBroadcast == [level |-> "info", text |-> "Processing BROADCAST"]

\* deliver starts with the log record of a REPLY, or of a BROADCAST: no other
\* operation writes these
ReplyDelivered == log' # <<>> /\ Head(log') = LogProcessingReply

BroadcastDelivered == log' # <<>> /\ Head(log') = LogProcessingBroadcast

\* C1: when id N is an open conversation whose future is pending, delivering a
\* RESULT reply with inReplyTo = N gives exactly that future the reply's result,
\* removes N from the table and leaves every other conversation and future as
\* it was; a RESULT reply for an id that is not in the table (as N is after
\* the first reply) resolves nothing.
C1_ReplyResolvesItsConversation ==
    [][ \A msg \in AnswerMessages :
          (ReplyDelivered /\ msg.reply.type = "RESULT" /\ Deliver(msg, FALSE)) =>
             LET n == msg.inReplyTo IN
             /\ n \in PendingIds =>
                  /\ futures' = [futures EXCEPT ![_open_convos[n]] =
                                    [state |-> "result", value |-> msg.reply.result]]
                  /\ DOMAIN _open_convos' = DOMAIN _open_convos \ {n}
                  /\ \A m \in DOMAIN _open_convos' : _open_convos'[m] = _open_convos[m]
             /\ n \notin DOMAIN _open_convos =>
                  /\ futures' = futures
                  /\ _open_convos' = _open_convos ]_vars

\* C1 witness: a RESULT reply has just resolved one conversation, which left the
\* table, while another one is still open and pending.
C1_Witness ==
    /\ log = <<LogProcessingReply>>
    /\ \E i, j \in DOMAIN futures :
         /\ i # j
         /\ futures[i].state = "result"
         /\ futures[i].value \in ResultValues
         /\ calls[i].id \notin DOMAIN _open_convos
         /\ calls[j].id \in PendingIds
         /\ _open_convos[calls[j].id] = j

\* C2: a future that is done never changes again, and the step that makes a
\* pending future done also removes its table entry.
C2_ExactlyOneResolution ==
    [][ \A i \in DOMAIN futures :
          /\ Done(futures[i]) => futures'[i] = futures[i]
          /\ (futures[i].state = "pending" /\ Done(futures'[i])) =>
                \A n \in DOMAIN _open_convos' : _open_convos'[n] # i ]_vars

\* C3: the id a call gets from _new_id is not a key of the table, no two calls
\* with a pending future share an id, and registering never replaces an entry
\* whose future is pending.
C3_FreshId ==
    [][ /\ Len(calls') = Len(calls) + 1 => _request_id' \notin DOMAIN _open_convos
        /\ \A i \in DOMAIN calls :
              EmitReturns(i) => calls[i].id \notin PendingIds
        /\ \A i, j \in DOMAIN futures' :
              (i # j /\ futures'[i].state = "pending" /\ futures'[j].state = "pending")
                 => calls'[i].id # calls'[j].id ]_vars

\* C4: a call whose reply was delivered while it was suspended in emit returns
\* a future that is resolved with a result.
C4_AnsweredDuringEmit ==
    \A i \in DOMAIN calls :
       (calls[i].pc = "returned" /\ calls[i].answered) => futures[i].state = "result"

\* the state deliver leaves after the messages msgs, handed to it one by one
RECURSIVE DeliverAll(_, _)
DeliverAll(st, msgs) ==
    IF msgs = <<>>
    THEN st
    ELSE LET r == deliver(st, Head(msgs), FALSE) IN
         DeliverAll([convos |-> r.convos, futures |-> r.futures, handlers |-> r.handlers],
                    Tail(msgs))

\* every order in which the elements of S can come
Orders(S) ==
    { p \in [1..Cardinality(S) -> S] : \A i, j \in 1..Cardinality(S) : i # j => p[i] # p[j] }

AnswerReplies == { r \in Replies : r.type \in {"RESULT", "VERSIONS"} }

ReplyValue(r) == IF r.type = "RESULT" THEN r.result ELSE r.versions

\* C5: with one reply for each open conversation whose future is pending, and
\* a broadcast among them, every order of delivery ends in the same state: each
\* of these futures holds the value of the reply that carries its id, their
\* entries are gone, and nothing else has changed.
C5_MatchedById ==
    \A answer \in [PendingIds -> AnswerReplies], topic \in TopicIds :
       LET msgs == { ReplyMessage(n, answer[n]) : n \in PendingIds }
                   \cup { BroadcastMessage(topic, "oops") }
           st == [convos |-> _open_convos, futures |-> futures,
                  handlers |-> add_broadcast_handler(_bcast_handlers, NameAlert, "h1")]
       IN  \A order \in Orders(msgs) :
              LET end == DeliverAll(st, order) IN
              /\ end.convos = [n \in DOMAIN _open_convos \ PendingIds |-> _open_convos[n]]
              /\ end.futures =
                    [i \in DOMAIN futures |->
                       IF calls[i].id \in PendingIds /\ _open_convos[calls[i].id] = i
                       THEN [state |-> "result", value |-> ReplyValue(answer[calls[i].id])]
                       ELSE futures[i]]

\* C5 witness: two conversations or more are open with a pending future.
C5_Witness == Cardinality(PendingIds) >= 2

\* C6: close() returns normally, leaves the table empty and every future that
\* was pending in it cancelled.
C6_CloseCancelsAll ==
    [][ Close =>
          /\ raised' = "none"
          /\ _open_convos' = EmptyDict
          /\ \A n \in PendingIds : futures'[_open_convos[n]].state = "cancelled" ]_vars

\* C7: a RESULT or VERSIONS reply whose inReplyTo is not in the table raises
\* nothing and changes neither the table, nor a future, nor the handler table,
\* nor the counter: it only writes the log record for it.
C7_UnknownReplyOnlyLogged ==
    [][ \A msg \in AnswerMessages :
          (ReplyDelivered /\ msg.inReplyTo \notin DOMAIN _open_convos /\ Deliver(msg, FALSE)) =>
             /\ raised' = "none"
             /\ UNCHANGED <<_open_convos, futures, _bcast_handlers, _request_id>>
             /\ invoked' = <<>>
             /\ log' = <<LogProcessingReply, LogNonexistent>> ]_vars

\* C7 witness: the reply logged as one to a nonexistent conversation met no
\* entry at all: no future is done, and every call that returned is still open.
C7_Witness ==
    /\ log = <<LogProcessingReply, LogNonexistent>>
    /\ raised = "none"
    /\ \E i \in DOMAIN calls : calls[i].pc = "returned"
    /\ \A i \in DOMAIN calls :
          calls[i].pc = "returned" => calls[i].id \in PendingIds /\ _open_convos[calls[i].id] = i

\* C8: a reply for a conversation whose future the caller cancelled raises
\* nothing, leaves that future cancelled and every other future and table entry
\* as it was, and removes the entry, so that a further reply for the id finds
\* none and changes nothing.
C8_LateReplyAfterCancel ==
    [][ \A msg \in AnswerMessages :
          (ReplyDelivered /\ Deliver(msg, FALSE)) =>
             LET n == msg.inReplyTo IN
             /\ (n \in DOMAIN _open_convos /\ futures[_open_convos[n]].state = "cancelled") =>
                  /\ raised' = "none"
                  /\ futures' = futures
                  /\ DOMAIN _open_convos' = DOMAIN _open_convos \ {n}
                  /\ \A m \in DOMAIN _open_convos' : _open_convos'[m] = _open_convos[m]
             /\ (n \notin DOMAIN _open_convos /\ \E i \in DOMAIN futures :
                                                   calls[i].id = n /\ futures[i].state = "cancelled") =>
                  /\ raised' = "none"
                  /\ futures' = futures
                  /\ _open_convos' = _open_convos ]_vars

\* C8 witness: a reply has just been dropped, the cancelled future it was for is
\* out of the table, and another conversation is still open and pending.
C8_Witness ==
    /\ log = <<LogProcessingReply, LogNonexistent>>
    /\ raised = "none"
    /\ \E i, j \in DOMAIN futures :
         /\ i # j
         /\ futures[i].state = "cancelled"
         /\ calls[i].id \notin DOMAIN _open_convos
         /\ calls[j].id \in PendingIds

\* C9: a VERSIONS reply resolves the pending future of a get_versions call with
\* its versions; a RESULT reply does not resolve the future of a get_versions
\* call, and a VERSIONS reply does not resolve the future of a fire call.
C9_VersionsOnlyForConnect ==
    [][ \A msg \in AnswerMessages :
          (ReplyDelivered /\ msg.inReplyTo \in PendingIds /\ Deliver(msg, FALSE)) =>
             LET f == _open_convos[msg.inReplyTo] IN
             /\ (calls[f].op = "get_versions" /\ msg.reply.type = "VERSIONS") =>
                   futures'[f] = [state |-> "result", value |-> msg.reply.versions]
             /\ (calls[f].op = "get_versions" /\ msg.reply.type = "RESULT") =>
                   futures'[f] = futures[f]
             /\ (calls[f].op = "fire" /\ msg.reply.type = "VERSIONS") =>
                   futures'[f] = futures[f] ]_vars

\* C10: add_broadcast_handler(name, h) puts h under rb_hash(name), and a
\* broadcast whose id has a handler invokes that handler once, with the
\* broadcast's id and payload, invokes no other, raises nothing and changes
\* neither the table of open conversations, nor a future, nor the handler table.
C10_BroadcastInvokesItsHandler ==
    [][ /\ \A name \in TopicNames, h \in Handlers :
              AddBroadcastHandler(name, h) =>
                 /\ rb_hash(name) \in DOMAIN _bcast_handlers'
                 /\ _bcast_handlers'[rb_hash(name)] = h
                 /\ \A b \in DOMAIN _bcast_handlers \ {rb_hash(name)} :
                       b \in DOMAIN _bcast_handlers' /\ _bcast_handlers'[b] = _bcast_handlers[b]
        /\ \A msg \in BroadcastMessages, handlerRaises \in BOOLEAN :
              (BroadcastDelivered /\ msg.broadcast.id \in DOMAIN _bcast_handlers
                 /\ Deliver(msg, handlerRaises)) =>
                 /\ invoked' = <<[handler |-> _bcast_handlers[msg.broadcast.id],
                                  args |-> <<msg.broadcast.id, msg.broadcast.payload>>]>>
                 /\ raised' = "none"
                 /\ UNCHANGED <<_open_convos, futures, _bcast_handlers>> ]_vars

\* C10 witness: the broadcast "alert" with payload "oops" has just invoked h1,
\* while h2 handles the other topic and a conversation is open and pending.
C10_Witness ==
    /\ invoked = <<[handler |-> "h1", args |-> <<rb_hash(NameAlert), "oops">>]>>
    /\ rb_hash(NameA) \in DOMAIN _bcast_handlers
    /\ _bcast_handlers[rb_hash(NameA)] = "h2"
    /\ _bcast_handlers[rb_hash(NameAlert)] = "h1"
    /\ PendingIds # {}

LogCouldNotHandle == [level |-> "error", text |-> "Could not handle bcast event"]

LogUnhandled == [level |-> "debug", text |-> "Received unhandled broadcast"]

\* C11: when the handler of a broadcast raises, nothing is raised out of
\* deliver, the handler table, the table of open conversations and the futures
\* are unchanged, and the client is left in the very state a handler that
\* returned would have left it in, so that whatever is delivered next is
\* processed as if the failure had not happened.
C11_HandlerFailureContained ==
    [][ \A msg \in BroadcastMessages :
          (BroadcastDelivered /\ msg.broadcast.id \in DOMAIN _bcast_handlers
             /\ Deliver(msg, TRUE)) =>
             LET st == [convos |-> _open_convos, futures |-> futures,
                        handlers |-> _bcast_handlers]
                 ok == deliver(st, msg, FALSE)
             IN  /\ raised' = "none"
                 /\ UNCHANGED <<_bcast_handlers, _open_convos, futures, _request_id>>
                 /\ _open_convos' = ok.convos
                 /\ futures' = ok.futures
                 /\ _bcast_handlers' = ok.handlers
                 /\ invoked' = ok.invoked ]_vars

\* C11 witness: the handler of "alert" has just raised, which was logged; it is
\* still registered, and a conversation is open and pending.
C11_Witness ==
    /\ log = <<LogProcessingBroadcast, LogCouldNotHandle>>
    /\ raised = "none"
    /\ invoked # <<>>
    /\ invoked[1].args[1] = rb_hash(NameAlert)
    /\ rb_hash(NameAlert) \in DOMAIN _bcast_handlers
    /\ PendingIds # {}

\* C12: a broadcast whose id has no handler in the table invokes no handler,
\* raises nothing, and changes neither the handler table, nor the table of open
\* conversations, nor a future.
C12_UnhandledBroadcastDropped ==
    [][ \A msg \in BroadcastMessages, handlerRaises \in BOOLEAN :
          (BroadcastDelivered /\ msg.broadcast.id \notin DOMAIN _bcast_handlers
             /\ Deliver(msg, handlerRaises)) =>
             /\ invoked' = <<>>
             /\ raised' = "none"
             /\ UNCHANGED <<_bcast_handlers, _open_convos, futures, _request_id>> ]_vars

\* C12 witness: a broadcast for "alert" has just been dropped while the other
\* topic has a handler and a conversation is open and pending.
C12_Witness ==
    /\ log = <<LogProcessingBroadcast, LogUnhandled>>
    /\ invoked = <<>>
    /\ raised = "none"
    /\ DOMAIN _bcast_handlers = {rb_hash(NameA)}
    /\ PendingIds # {}

\* C13: the step in which the future of a disconnect call gets its result leaves
\* the table of open conversations empty and no future pending.
C13_DisconnectSupersedes ==
    [][ \A i \in DOMAIN calls :
          (calls[i].op = "disconnect" /\ futures[i].state = "pending"
             /\ futures'[i].state = "result") =>
             /\ _open_convos' = EmptyDict
             /\ \A j \in DOMAIN futures' : futures'[j].state # "pending" ]_vars

LogStatus == [level |-> "info", text |-> "Received STATUS"]

\* C14: a STATUS reply, whether its inReplyTo is a key of the table or not,
\* raises nothing and leaves the table of open conversations and every future
\* as they were: it is only logged.
C14_StatusReplyResolvesNothing ==
    [][ \A msg \in ReplyMessages :
          (ReplyDelivered /\ msg.reply.type = "STATUS" /\ Deliver(msg, FALSE)) =>
             /\ UNCHANGED <<_open_convos, futures, _bcast_handlers, _request_id>>
             /\ raised' = "none"
             /\ log' = <<LogProcessingReply, LogStatus>> ]_vars

\* C14 witness: a STATUS reply has just been logged, one conversation is open
\* and pending, and all the calls that returned are still in the table.
C14_Witness ==
    /\ log = <<LogProcessingReply, LogStatus>>
    /\ PendingIds # {}
    /\ \A i \in DOMAIN calls :
          calls[i].pc = "returned" => calls[i].id \in PendingIds /\ _open_convos[calls[i].id] = i

\* C15: once close() has been called the table of open conversations is empty,
\* and stays so: no call registers a conversation any more.
C15_NoRegistrationAfterClose ==
    closed => _open_convos = EmptyDict

\* C16: when emit raises, the call raises that error to its caller, creates no
\* future, and leaves the table of open conversations and every future as
\* they were; a call that ended so has no future and no entry in the table.
C16_EmitFailurePropagates ==
    [][ \A i \in DOMAIN calls :
          EmitRaises(i) =>
             /\ raised' = "NotImplementedError"
             /\ _open_convos' = _open_convos
             /\ futures' = futures
             /\ futures'[i] = NoFuture
             /\ \A n \in DOMAIN _open_convos' : _open_convos'[n] # i ]_vars

\* C16 witness: a call has just failed in emit and another call's conversation
\* is open and pending.
C16_Witness ==
    /\ raised = "NotImplementedError"
    /\ \E i, j \in DOMAIN calls :
         /\ calls[i].pc = "raised"
         /\ futures[i] = NoFuture
         /\ calls[j].pc = "returned"
         /\ calls[j].id \in PendingIds

\* The fold the hash is specified by, acc := (101*acc + c) mod 2^32 from acc = 0,
\* on four bytes <<b0, b1, b2, b3>>, the lowest first.
FoldStep(acc, c) ==
    LET t0 == 101 * acc[1] + c
        t1 == 101 * acc[2] + (t0 \div 256)
        t2 == 101 * acc[3] + (t1 \div 256)
        t3 == 101 * acc[4] + (t2 \div 256)
    IN  <<t0 % 256, t1 % 256, t2 % 256, t3 % 256>>

RECURSIVE Fold(_)
Fold(s) ==
    IF s = <<>> THEN <<0, 0, 0, 0>>
    ELSE FoldStep(Fold(SubSeq(s, 1, Len(s) - 1)), s[Len(s)])

\* the four bytes as <<hi, lo>>
FoldValue(s) ==
    LET b == Fold(s) IN <<b[4] * 256 + b[3], b[2] * 256 + b[1]>>

\* C17: the id fire puts in its request for a name, and the key
\* add_broadcast_handler files a handler under, are rb_hash of the name, which
\* is the fold of the name's ASCII codes, lies in 0..2^32-1, is 0 for "" and 97
\* for "a", and is what the source computes for "ping", "alert" and
\* "sendRobotPing".
C17_HashIsFold ==
    [][ \A n \in HashNames :
          /\ HashFire(n) =>
                LET id == calls'[1].request.fire.id IN
                /\ id = rb_hash(n)
                /\ id = FoldValue(n)
                /\ id[1] \in 0..(Half - 1) /\ id[2] \in 0..(Half - 1)
                /\ n = <<>> => id = <<0, 0>>
                /\ n = NameA => id = <<0, 97>>
                /\ n = NamePing => id = <<1777, 18558>>
                /\ n = NameAlert => id = <<24661, 55448>>
                /\ n = NameSendRobotPing => id = <<8075, 47418>>
          /\ HashSubscribe(n) =>
                DOMAIN _bcast_handlers' = {FoldValue(n)} ]_vars

\* C17 witness: fire has hashed the name of five DEL characters, whose fold
\* passes 2^32 and wraps to 462925747.
C17_Witness ==
    /\ calls # <<>>
    /\ calls[1].request.fire.id = <<7063, 44979>>
    /\ <<7063, 44979>> = rb_hash(<<127, 127, 127, 127, 127>>)

\* the subscriptions Proxy holds are the ones the core holds: a name has a
\* handler in Proxy exactly when the core routes the name's hash to it
SameSubscriptions ==
    /\ \A n \in ProxyNames :
          n \in DOMAIN Proxy_bcast_handlers <=>
             (rb_hash(n) \in DOMAIN _bcast_handlers /\ _bcast_handlers[rb_hash(n)] = Wrapper(n))
    /\ DOMAIN _bcast_handlers = { rb_hash(n) : n \in DOMAIN Proxy_bcast_handlers }

\* C18: a subscription replaces the one before it for the same name, so that a
\* broadcast for the name invokes the last handler only; a broadcast whose name
\* was removed invokes nothing; and Proxy's map and the core's map hold the same
\* subscriptions in every state.
C18_LastRegistrationWins ==
    [][ /\ \A n \in ProxyNames, h \in Handlers :
              rb_add_broadcast_handler(n, h) =>
                 /\ Proxy_bcast_handlers'[n] = h
                 /\ _bcast_handlers'[rb_hash(n)] = Wrapper(n)
        /\ \A n \in ProxyNames, p \in Payloads, handlerRaises \in BOOLEAN :
              rb_deliver(BroadcastMessage(rb_hash(n), p), handlerRaises) =>
                 IF n \in DOMAIN Proxy_bcast_handlers
                 THEN \E w \in DOMAIN Proxy_bcast_handlers :
                         invoked' = <<[handler |-> Wrapper(w), args |-> <<rb_hash(n), p>>],
                                      [handler |-> Proxy_bcast_handlers[w], args |-> <<p>>]>>
                 ELSE \A k \in DOMAIN invoked' : invoked'[k].handler \notin Handlers
        /\ SameSubscriptions' ]_vars

\* C19: with calls and deliver on different threads, no two calls hold the
\* same id, and no registration is lost: the pending future of every call that
\* returned is in the table under the call's id.
C19_ThreadsNeverShareAnId ==
    /\ \A i, j \in DOMAIN calls :
          (i # j /\ calls[i].pc \in {"emit", "returned"} /\ calls[j].pc \in {"emit", "returned"})
             => calls[i].id # calls[j].id
    /\ \A i \in DOMAIN calls :
          (calls[i].pc = "returned" /\ futures[i].state = "pending")
             => (calls[i].id \in DOMAIN _open_convos /\ _open_convos[calls[i].id] = i)

\* C20: every future the table of open conversations holds is pending.
C20_TableHoldsOnlyPending ==
    \A n \in DOMAIN _open_convos : futures[_open_convos[n]].state = "pending"

\* C21: whenever a constructor has returned, its worker has created the event
\* loop and the loop attribute holds it; and every constructor returns.
C21_InitializationBarrier ==
    /\ [](\A o \in Objects :
            handshake[o].ctor = "returned" =>
               /\ handshake[o].loop = "loop"
               /\ ~handshake[o]._initializing)
    /\ \A o \in Objects : <>(handshake[o].ctor = "returned")

\* C21 witness: IoCore's constructor has returned after notify_all woke it from
\* wait(), with the loop made, while SfpRpcProxy's is still waiting.
C21_Witness ==
    /\ handshake["IoCore"].ctor = "returned"
    /\ handshake["IoCore"].wait_result = "notified"
    /\ handshake["IoCore"].loop = "loop"
    /\ handshake["SfpRpcProxy"].ctor = "waiting"

\* C22: once the done-callback of a conversation future has run, the future
\* handed to the user is done too: cancelled when the conversation was
\* cancelled, and otherwise holding the parsed result unless the user cancelled
\* it; and delivering a reply raises nothing.
C22_UserFutureFollows ==
    /\ \A i \in DOMAIN user_fut :
          (Done(futures[i]) /\ user_fut[i].callback = "run") =>
             /\ user_fut[i].state \in {"result", "cancelled"}
             /\ futures[i].state = "cancelled" => user_fut[i].state = "cancelled"
             /\ user_fut[i].state = "result" =>
                   (futures[i].value \in ResultValues
                      /\ user_fut[i].value = [result_obj |-> futures[i].value.payload])
    /\ (log # <<>> /\ Head(log) = LogProcessingReply) => raised = "none"

====
